---- MODULE Spec2Model ----
(***************************************************************************)
(* Model of the request-rate limiter of job-flow (src/core/rate_limit.py). *)
(*                                                                         *)
(* RateLimiter.is_rate_limited is modelled statement group by statement    *)
(* group, one task per call:                                               *)
(*   Call       async with self.locks[key]            (line 50)            *)
(*   "read"     now, get-or-set, read, window reset   (lines 51-63)        *)
(*   "decide"   limit resolution, compare, store, info (lines 64-96)       *)
(*   "ret"      leaving the async with block, return  (line 96)            *)
(* The only exclusion the model grants a task is the one the lock gives    *)
(* it: tasks interleave freely between the groups, so that what the lock   *)
(* protects is checked and not assumed.                                    *)
(*                                                                         *)
(* time.time() is a float: the model clock counts ticks of 1/TicksPerSec   *)
(* of a second, and int() of a time is the division by TicksPerSec.        *)
(***************************************************************************)
EXTENDS Integers, Sequences, FiniteSets, TLC

\* ---- bounds of the model ----
NTasks == 3
MaxTicks == 1
TicksPerSec == 2
\* longest endpoint, in tokens, whose limit is resolved on its own
MaxPathLen == 5
\* requests that pass through the middleware
NRequests == 2

Tasks == 1..NTasks

\* ---- program constants ----
WINDOW_SIZE == 60
WindowTicks == WINDOW_SIZE * TicksPerSec

\* the limit table of RateLimiter.__init__; an entry is either a flat integer
\* or a dict of per-operation limits (isinstance(..., dict))
NoOps == [o \in {} |-> 0]
default_limits ==
    [ default |-> [isdict |-> FALSE, flat |-> 60, ops |-> NoOps],
      resume  |-> [isdict |-> TRUE,  flat |-> 0,
                   ops |-> [parse |-> 10, enhance |-> 5, analyze |-> 5]],
      jobs    |-> [isdict |-> TRUE,  flat |-> 0,
                   ops |-> [search |-> 30, apply |-> 20]],
      auth    |-> [isdict |-> TRUE,  flat |-> 0,
                   ops |-> [login |-> 10, register |-> 5]] ]

\* ---- inputs ----
\* client keys (request.client.host)
Keys == {"1.2.3.4", "5.6.7.8"}
\* endpoint strings, as sequences of tokens: "/" or a word without a slash
Endpoints == { <<"/", "resume", "/", "enhance">>, <<"/", "jobs", "/", "search">> }
\* the limit argument the callers of an endpoint pass (Optional[int]: <<>> is
\* None, <<n>> an explicit limit)
CallerLimit(endpoint) ==
    IF endpoint = <<"/", "jobs", "/", "search">> THEN <<1>> ELSE <<2>>

Pairs == Keys \X Endpoints

\* the requests that arrive at the middleware:
\* (request.client.host, request.url.path)
MwRequests ==
    { <<"1.2.3.4", <<"/", "health">>>>,
      <<"1.2.3.4", <<"/", "health", "/">>>>,
      <<"5.6.7.8", <<"/", "health", "/", "x">>>>,
      <<"1.2.3.4", <<"/", "resume", "/", "enhance">>>> }

\* the calls made: two endpoints of one client, and one of them for a second
\* client
CallPairs == { <<"1.2.3.4", <<"/", "resume", "/", "enhance">>>>,
               <<"1.2.3.4", <<"/", "jobs", "/", "search">>>>,
               <<"5.6.7.8", <<"/", "resume", "/", "enhance">>>> }

VARIABLES
    clock,      \* time.time(), in ticks
    ticks,      \* number of clock changes so far
    requests,   \* self.requests: key -> endpoint -> <<count, window_start>>
    locks,      \* self.locks: key -> asyncio.Lock
    pc,         \* position of each task
    args,       \* (key, endpoint, limit) of each task's call
    loc,        \* local variables of each task's call
    winlog,     \* history: per pair, the decisions taken in the stored window
    peak,       \* history: per pair, the most calls in progress together
    mw,         \* RateLimitMiddleware.dispatch: the state of each request
    admitlog    \* history: per pair, <<time, window_start>> of each admission

vars == <<clock, ticks, requests, locks, pc, args, loc, winlog, peak, mw, admitlog>>

\* ---- str.split("/") ----
RECURSIVE SplitAcc(_, _)
SplitAcc(s, cur) ==
    IF s = <<>> THEN <<cur>>
    ELSE IF Head(s) = "/" THEN <<cur>> \o SplitAcc(Tail(s), <<>>)
    ELSE SplitAcc(Tail(s), Append(cur, Head(s)))

\* settings.API_V1_STR, the prefix of every router
API_V1_STR == <<"/", "api", "/", "v1">>

\* a split of the path below the API prefix
Split_BelowPrefix(s) ==
    IF Len(s) >= Len(API_V1_STR) /\ SubSeq(s, 1, Len(API_V1_STR)) = API_V1_STR
    THEN SplitAcc(SubSeq(s, Len(API_V1_STR) + 1, Len(s)), <<>>)
    ELSE SplitAcc(s, <<>>)

\* a split that drops the empty parts, as str.split() without a separator does
Split_NoEmpty(s) == SelectSeq(SplitAcc(s, <<>>), LAMBDA part : part # <<>>)

Split(s) == SplitAcc(s, <<>>)

\* `part in table`: a part is a key of the table when it is one word of it
InTable(part, table) == Len(part) = 1 /\ part[1] \in DOMAIN table

\* a resolution that looks the operation up in every entry of the table and
\* grants nothing when it finds none
CategoryLimit_NoDefault(entry, operation) ==
    IF InTable(operation, entry.ops) THEN entry.ops[operation[1]] ELSE 0

\* lines 71-77, for a category of the table: its per-operation limit when the
\* entry is a dict that has the operation, the default otherwise
CategoryLimit(entry, operation) ==
    IF entry.isdict
    THEN IF InTable(operation, entry.ops)
         THEN entry.ops[operation[1]]
         ELSE default_limits.default.flat
    ELSE default_limits.default.flat

\* lines 66-79: the limit the table gives an endpoint
TableLimit(endpoint) ==
    LET parts == Split(endpoint) IN
    IF Len(parts) >= 2
    THEN LET category  == parts[2]
             operation == IF Len(parts) > 2 THEN parts[3] ELSE <<>>
         IN  IF InTable(category, default_limits)
             THEN CategoryLimit(default_limits[category[1]], operation)
             ELSE default_limits.default.flat
    ELSE default_limits.default.flat

\* a resolution that ignores the limit of the caller
ResolveLimit_TableOnly(endpoint, limit) == TableLimit(endpoint)

\* lines 65-79: the limit of a call
ResolveLimit(endpoint, limit) ==
    IF limit # <<>> THEN limit[1] ELSE TableLimit(endpoint)

\* ---- self.requests ----
\* line 54: key in self.requests and endpoint in self.requests[key]
HasEntry(req, key, endpoint) ==
    key \in DOMAIN req /\ endpoint \in DOMAIN req[key]

\* a store that keeps one counter per key, shared by its endpoints
Store_PerKey(req, key, endpoint, value) ==
    [k \in DOMAIN req \cup {key} |->
        IF k = key THEN [e \in Endpoints |-> value] ELSE req[k]]

\* self.requests[key][endpoint] = value (self.requests is a defaultdict(dict))
Store(req, key, endpoint, value) ==
    LET old == IF key \in DOMAIN req THEN req[key] ELSE [e \in {} |-> <<0, 0>>]
    IN  [k \in DOMAIN req \cup {key} |->
            IF k = key
            THEN [e \in DOMAIN old \cup {endpoint} |->
                     IF e = endpoint THEN value ELSE old[e]]
            ELSE req[k]]

\* a window test that resets a fraction of a second early
WindowExpired_Early(now, window_start) == now - window_start >= WindowTicks - 1

\* a window test that misses the boundary
WindowExpired_Strict(now, window_start) == now - window_start > WindowTicks

\* line 60: the window of a counter has elapsed
WindowExpired(now, window_start) == now - window_start >= WindowTicks

\* a comparison that admits one request too many
IsLimited_Strict(count, limit) == count > limit

\* line 82
IsLimited(count, limit) == count >= limit

\* an admission that forgets to count
Admit_Forgotten(count) == count

\* line 85: count += 1
Admit(count) == count + 1

\* a remaining computed one too low
Remaining_OffByOne(limit, count) == IF limit - count - 1 > 0 THEN limit - count - 1 ELSE 0

\* line 88
Remaining(limit, count) == IF limit - count > 0 THEN limit - count ELSE 0

\* the end of the window rounded up to a whole second
ResetTime_Rounded(window_start) ==
    (window_start + WindowTicks + TicksPerSec - 1) \div TicksPerSec

\* line 89 and 94: int(window_start + self.WINDOW_SIZE), in seconds
ResetTime(window_start) == (window_start + WindowTicks) \div TicksPerSec

\* ---- self.locks ----
\* one lock for every client
LockKey_Global(key, endpoint) == "global"

\* line 50: the lock a call takes is self.locks[key]
LockKey(key, endpoint) == key

\* asyncio.Lock(): not locked, no waiters; woken are the waiters whose
\* future has been given its result by release()
NewLock == [locked |-> FALSE, waiters |-> <<>>, woken |-> {}]

\* a table that makes a lock at every access
LockOf_Fresh(lks, k) == NewLock

\* self.locks[k] of a defaultdict(asyncio.Lock)
LockOf(lks, k) == IF k \in DOMAIN lks THEN lks[k] ELSE NewLock

\* a table of locks that keeps the lock written last only
SetLock_Evicting(lks, k, lk) == [x \in {k} |-> lk]

SetLock(lks, k, lk) == [x \in DOMAIN lks \cup {k} |-> IF x = k THEN lk ELSE lks[x]]

\* an acquire that does not look at the lock
CanAcquire_Always(lk) == TRUE

\* an acquire that looks at the queue only
CanAcquire_QueueOnly(lk) == lk.waiters = <<>>

\* asyncio.Lock.acquire, fast path: free and nobody queued
CanAcquire(lk) == ~lk.locked /\ lk.waiters = <<>>

\* a release that wakes nobody
Release_NoWake(lk) == [lk EXCEPT !.locked = FALSE]

\* Lock.release(): the lock is free and the first waiter, if there is one,
\* is given the result of its future
Release(lk) ==
    [lk EXCEPT !.locked = FALSE,
               !.woken = IF lk.waiters # <<>> THEN @ \cup {Head(lk.waiters)} ELSE @]

\* ---- tasks ----
NoLocals ==
    [now |-> 0, count |-> 0, window_start |-> 0, limit |-> 0,
     is_limited |-> FALSE, remaining |-> 0, reset |-> 0, window |-> 0,
     \* history of the call
     ws0 |-> 0,           \* window_start as read from the store (line 57)
     count0 |-> 0,        \* count as read from the store (line 57)
     c0 |-> 0]            \* count after the window reset, before the decision

\* a response: status, body and headers (name -> value)
NoResponse == [status |-> 0, body |-> [type |-> "none"], headers |-> [h \in {} |-> <<>>]]

\* dispatch before it is called for a request
NoMw ==
    [pc |-> "new", host |-> "1.2.3.4", path |-> <<>>,
     is_limited |-> FALSE,
     info |-> [limit |-> 0, remaining |-> 0, reset |-> 0],
     down |-> NoResponse,      \* the response call_next returned
     resp |-> NoResponse,      \* the response dispatch returned
     \* history of the request
     checks |-> 0,             \* calls of is_rate_limited
     auth |-> 0,               \* runs of the auth dependency
     handler |-> 0,            \* runs of the route handler
     built |-> 0]              \* clock when the 429 body was built (line 134)

NoArgs == [key |-> "1.2.3.4", endpoint |-> <<"/", "resume", "/", "enhance">>, limit |-> <<>>]

KeyOf(t) == args[t].key
EndpointOf(t) == args[t].endpoint
PairOf(t) == <<args[t].key, args[t].endpoint>>

InFlight(t) == pc[t] \in {"waiting", "read", "decide", "ret"}
InCS(t) == pc[t] \in {"read", "decide", "ret"}

Init ==
    /\ clock = 1
    /\ ticks = 0
    /\ requests = [k \in {} |-> [e \in {} |-> <<0, 0>>]]
    /\ locks = [k \in {} |-> NewLock]
    /\ pc = [t \in Tasks |-> "idle"]
    /\ args = [t \in Tasks |-> NoArgs]
    /\ loc = [t \in Tasks |-> NoLocals]
    /\ winlog = [p \in Pairs |-> <<>>]
    /\ peak = [p \in Pairs |-> 0]
    /\ mw = [t \in Tasks |-> NoMw]
    /\ admitlog = [p \in Pairs |-> <<>>]

\* The clock is observed at line 51 and at line 134 only: time that passes
\* while no task is about to read it is the time that has passed when the next
\* one reads it.
ClockObserved == \E t \in Tasks : pc[t] = "read" \/ mw[t].pc = "limited"

\* the clock moves forward
Tick(d) ==
    /\ ticks < MaxTicks
    /\ ClockObserved
    /\ clock' = clock + d
    /\ ticks' = ticks + 1
    /\ UNCHANGED <<requests, locks, pc, args, loc, winlog, peak, mw, admitlog>>

\* time.time() is not monotonic: the system clock is set back
ClockBack(d) ==
    /\ ticks < MaxTicks
    /\ ClockObserved
    /\ clock >= d
    /\ clock' = clock - d
    /\ ticks' = ticks + 1
    /\ UNCHANGED <<requests, locks, pc, args, loc, winlog, peak, mw, admitlog>>

\* a store that charges a rejected request too
Persist_Rejected(reqs, is_limited, key, endpoint, count, window_start) ==
    Store(reqs, key, endpoint,
          <<IF is_limited THEN count + 1 ELSE count, window_start>>)

\* lines 84-86: only a request that is not limited stores its counter
Persist(reqs, is_limited, key, endpoint, count, window_start) ==
    IF is_limited THEN reqs
    ELSE Store(reqs, key, endpoint, <<count, window_start>>)

\* a caller starts is_rate_limited(key, endpoint, limit); the coroutine runs
\* to line 50, async with self.locks[key]: Lock.acquire() takes the lock or
\* queues the task.  Tasks are started in the order of their numbers.
Call(t, key, endpoint, limit) ==
    /\ pc[t] = "idle"
    /\ \A u \in Tasks : u < t => pc[u] # "idle"
    /\ args' = [args EXCEPT ![t] = [key |-> key, endpoint |-> endpoint, limit |-> limit]]
    /\ LET together == 1 + Cardinality({u \in Tasks :
                                InFlight(u) /\ PairOf(u) = <<key, endpoint>>})
       IN  peak' = [peak EXCEPT ![<<key, endpoint>>] = IF together > @ THEN together ELSE @]
    /\ LET k  == LockKey(key, endpoint)
           lk == LockOf(locks, k)
       IN  IF CanAcquire(lk)
           THEN /\ locks' = SetLock(locks, k, [lk EXCEPT !.locked = TRUE])
                /\ pc' = [pc EXCEPT ![t] = "read"]
           ELSE /\ locks' = SetLock(locks, k, [lk EXCEPT !.waiters = Append(@, t)])
                /\ pc' = [pc EXCEPT ![t] = "waiting"]
    /\ UNCHANGED <<clock, ticks, requests, loc, winlog, admitlog>>

\* Lock.acquire() of a waiter whose future was given its result by release()
Wake(t) ==
    /\ pc[t] = "waiting"
    /\ LET k  == LockKey(KeyOf(t), EndpointOf(t))
           lk == LockOf(locks, k)
       IN  /\ t \in lk.woken
           /\ locks' = SetLock(locks, k,
                  [locked  |-> TRUE,
                   waiters |-> SelectSeq(lk.waiters, LAMBDA u : u # t),
                   woken   |-> lk.woken \ {t}])
    /\ pc' = [pc EXCEPT ![t] = "read"]
    /\ UNCHANGED <<clock, ticks, requests, args, loc, winlog, peak, mw, admitlog>>

\* lines 51-63: read the clock, get or set the counter, reset the window
Read(t) ==
    /\ pc[t] = "read"
    /\ LET key      == KeyOf(t)
           endpoint == EndpointOf(t)
           now      == clock
           created  == ~HasEntry(requests, key, endpoint)
           req1     == IF created THEN Store(requests, key, endpoint, <<0, now>>)
                       ELSE requests
           count    == req1[key][endpoint][1]
           wstart   == req1[key][endpoint][2]
           expired  == WindowExpired(now, wstart)
       IN  /\ requests' = req1
           /\ loc' = [loc EXCEPT ![t] =
                  [@ EXCEPT !.now = now,
                            !.count = IF expired THEN 0 ELSE count,
                            !.window_start = IF expired THEN now ELSE wstart,
                            !.ws0 = wstart,
                            !.count0 = count,
                            !.c0 = IF expired THEN 0 ELSE count]]
    /\ pc' = [pc EXCEPT ![t] = "decide"]
    /\ UNCHANGED <<clock, ticks, locks, args, winlog, peak, mw, admitlog>>

\* lines 64-96: resolve the limit, decide, store the counter, build info
Decide(t) ==
    /\ pc[t] = "decide"
    /\ LET key        == KeyOf(t)
           endpoint   == EndpointOf(t)
           limit      == ResolveLimit(endpoint, args[t].limit)
           is_limited == IsLimited(loc[t].count, limit)
           count      == IF is_limited THEN loc[t].count ELSE Admit(loc[t].count)
           remaining  == Remaining(limit, count)
           entry      == [is_limited |-> is_limited, remaining |-> remaining]
           newwindow  == loc[t].window_start # loc[t].ws0
       IN  /\ requests' = Persist(requests, is_limited, key, endpoint,
                                   count, loc[t].window_start)
           /\ loc' = [loc EXCEPT ![t] =
                  [@ EXCEPT !.limit = limit,
                            !.is_limited = is_limited,
                            !.count = count,
                            !.remaining = remaining,
                            !.reset = ResetTime(loc[t].window_start),
                            !.window = WINDOW_SIZE]]
           /\ winlog' = [winlog EXCEPT ![<<key, endpoint>>] =
                  IF newwindow /\ ~is_limited THEN <<entry>> ELSE Append(@, entry)]
    /\ pc' = [pc EXCEPT ![t] = "ret"]
    /\ UNCHANGED <<clock, ticks, locks, args, peak, mw>>

\* leaving the async with block: Lock.release(), then return (line 91)
Return(t) ==
    /\ pc[t] = "ret"
    /\ LET k  == LockKey(KeyOf(t), EndpointOf(t))
           lk == LockOf(locks, k)
       IN  locks' = SetLock(locks, k, Release(lk))
    /\ pc' = [pc EXCEPT ![t] = "done"]
    /\ args' = [args EXCEPT ![t] = NoArgs]
    /\ loc' = [loc EXCEPT ![t] = NoLocals]
    /\ UNCHANGED <<clock, ticks, requests, winlog, peak, admitlog>>

\* a fraction of a second, a window, or a fraction of a second less
ClockSteps == {1, WindowTicks - 1, WindowTicks}

Next ==
    \/ \E d \in ClockSteps : Tick(d)
    \/ \E d \in {1} : ClockBack(d)
    \/ \E t \in Tasks, p \in CallPairs :
           Call(t, p[1], p[2], CallerLimit(p[2])) /\ UNCHANGED mw
    \/ \E t \in Tasks : Wake(t)
    \/ \E t \in Tasks : Read(t)
    \/ \E t \in Tasks : Decide(t) /\ UNCHANGED admitlog
    \/ \E t \in Tasks : Return(t) /\ UNCHANGED mw

Spec == Init /\ [][Next]_vars

\* ---- limit resolution on its own (lines 64-79) ----
PathTokens == {"/", "resume", "enhance", "default", "api"}

\* the endpoints the specification names
NamedPaths ==
    { <<"/", "resume", "/", "enhance">>, <<"/", "resume", "/", "parse">>,
      <<"/", "resume", "/", "analyze">>,
      <<"/", "jobs", "/", "search">>, <<"/", "jobs", "/", "apply">>,
      <<"/", "auth", "/", "login">>, <<"/", "auth", "/", "register">>,
      <<"/", "unknown", "/", "thing">>, <<"/", "resume", "/", "other">>,
      <<"/", "resume">>, <<"/", "health">> }

\* values of the path parameters {resume_id} and {job_id}
PathIds == {"42", "enhance"}

\* the routes of the routers that main.py includes, below their prefix
RouterPaths ==
    [ users   |-> { <<"/", "register">>, <<"/", "me">>, <<"/", "me", "/", "deactivate">> },
      resumes |-> { <<"/", "upload">>, <<"/", "me">> }
                  \cup { <<"/", id>> : id \in PathIds }
                  \cup { <<"/", id, "/", "enhance">> : id \in PathIds },
      jobs    |-> { <<"/", "search">> }
                  \cup { <<"/", "matches", "/", id>> : id \in PathIds }
                  \cup { <<"/", id>> : id \in PathIds }
                  \cup { <<"/", id, "/", "apply">> : id \in PathIds } ]

\* app.include_router(router, prefix=f"{settings.API_V1_STR}/<name>")
DeployedPaths ==
    UNION { { API_V1_STR \o <<"/", r>> \o route : route \in RouterPaths[r] }
            : r \in DOMAIN RouterPaths }

PathInputs ==
    NamedPaths \cup DeployedPaths \cup UNION {[1..n -> PathTokens] : n \in 0..MaxPathLen}

InitResolve ==
    /\ clock = 0
    /\ ticks = 0
    /\ requests = [k \in {} |-> [e \in {} |-> <<0, 0>>]]
    /\ locks = [k \in {} |-> NewLock]
    /\ pc = [t \in Tasks |-> "idle"]
    /\ \E path \in PathInputs :
           args = [t \in Tasks |-> IF t = 1 THEN [NoArgs EXCEPT !.endpoint = path]
                                   ELSE NoArgs]
    /\ loc = [t \in Tasks |-> NoLocals]
    /\ winlog = [p \in Pairs |-> <<>>]
    /\ peak = [p \in Pairs |-> 0]
    /\ mw = [t \in Tasks |-> NoMw]
    /\ admitlog = [p \in Pairs |-> <<>>]

\* lines 64-79 for a call without an explicit limit
Resolve(t) ==
    /\ pc[t] = "idle"
    /\ t = 1
    /\ loc' = [loc EXCEPT ![t].limit = ResolveLimit(args[t].endpoint, args[t].limit)]
    /\ pc' = [pc EXCEPT ![t] = "resolved"]
    /\ UNCHANGED <<clock, ticks, requests, locks, args, winlog, peak, mw, admitlog>>

NextResolve == \E t \in Tasks : Resolve(t)

SpecResolve == InitResolve /\ [][NextResolve]_vars

\* ---- RateLimitMiddleware.dispatch (lines 106-146) ----
\* a bypass that matches every path under the liveness path
Bypassed_Prefix(path) == Len(path) >= 2 /\ SubSeq(path, 1, 2) = <<"/", "health">>

\* line 109: request.url.path == "/health"
Bypassed(path) == path = <<"/", "health">>

\* a client identifier that is the same for every client
MwKey_Shared(host) == "1.2.3.4"

\* lines 113 and 117: key = request.client.host
MwKey(host) == host

\* a middleware that never short-circuits
ShortCircuit_Never(is_limited) == FALSE

\* line 128: if is_limited
ShortCircuit(is_limited) == is_limited

\* str(n) of an integer
Str(n) == <<"str", n>>

\* headers whose limit and remaining are exchanged
Headers_Swapped(info) ==
    ("X-RateLimit-Limit" :> Str(info.remaining)) @@
    ("X-RateLimit-Remaining" :> Str(info.limit)) @@
    ("X-RateLimit-Reset" :> Str(info.reset))

\* lines 122-126
Headers(info) ==
    ("X-RateLimit-Limit" :> Str(info.limit)) @@
    ("X-RateLimit-Remaining" :> Str(info.remaining)) @@
    ("X-RateLimit-Reset" :> Str(info.reset))

\* line 134: info["reset"] - int(time.time())
RetryAfter(reset, now) == reset - (now \div TicksPerSec)

\* lines 143-144: response.headers[key] = value
AddHeaders(hs, new) ==
    [h \in DOMAIN hs \cup DOMAIN new |-> IF h \in DOMAIN new THEN new[h] ELSE hs[h]]

\* What call_next does with a request (main.py): the liveness route answers
\* 200 and no route is mounted under it (404); a request for any other route
\* is answered, is refused by the auth dependency (401, made a response by
\* the HTTPException handler inside the middleware), or fails with an
\* exception that passes through dispatch.
Outcomes(path) ==
    IF path = <<"/", "health">> THEN {"ok"}
    ELSE IF Len(path) >= 2 /\ path[2] = "health" THEN {"notfound"}
    ELSE {"ok", "unauthorized", "raise"}

DownResponse(path, outcome) ==
    [status  |-> CASE outcome = "ok" -> 200
                   [] outcome = "unauthorized" -> 401
                   [] OTHER -> 404,
     body    |-> [type |-> IF path = <<"/", "health">> THEN "healthy" ELSE outcome],
     headers |-> ("content-type" :> <<"application/json">>)]

\* a store in which the limiter has already admitted requests of one pair,
\* as many as its limit or one less, in a window started at time ws
WarmPairs == { <<"1.2.3.4", <<"/", "resume", "/", "enhance">>>> }

WarmStores(ws) ==
    { [k \in {} |-> [e \in {} |-> <<0, 0>>]] } \cup
    UNION { { Store([k \in {} |-> [e \in {} |-> <<0, 0>>]], p[1], p[2], <<c, ws>>) :
                  c \in { ResolveLimit(p[2], <<>>) - 1, ResolveLimit(p[2], <<>>) } } :
            p \in WarmPairs }

\* the limiter of a running application: earlier requests may have been
\* counted, in a window started at a fraction of a second, just now or a
\* fraction of a second less than a window ago
InitMw ==
    /\ clock \in {1, WindowTicks}
    /\ ticks = 0
    /\ requests \in WarmStores(1)
    /\ locks = [k \in DOMAIN requests |-> NewLock]
    /\ pc = [t \in Tasks |-> "idle"]
    /\ args = [t \in Tasks |-> NoArgs]
    /\ loc = [t \in Tasks |-> NoLocals]
    /\ winlog = [p \in MwRequests |-> <<>>]
    /\ peak = [p \in MwRequests |-> 0]
    /\ mw = [t \in Tasks |-> NoMw]
    /\ admitlog = [p \in Pairs |-> <<>>]

\* The application runs on one asyncio event loop: a coroutine runs without
\* interruption from one await that suspends to the next. dispatch suspends in
\* call_next (lines 110 and 140) only: the lock of line 50 is free whenever a
\* dispatch starts, and lines 51-137 hold no await. A task between those
\* points is the one the loop is running.
Running(u) == pc[u] \in {"read", "decide", "ret"} \/ mw[u].pc = "limited"

LoopFree == \A u \in Tasks : ~Running(u)

\* lines 106-119: dispatch(request, call_next) up to the await of the check
Dispatch(t, host, path) ==
    /\ t \in 1..NRequests
    /\ LoopFree
    /\ mw[t].pc = "new"
    /\ \A u \in Tasks : u < t => mw[u].pc # "new"
    /\ IF Bypassed(path)
       THEN /\ mw' = [mw EXCEPT ![t] = [@ EXCEPT !.pc = "bypass",
                                                 !.host = host, !.path = path]]
            /\ pc' = [pc EXCEPT ![t] = "skipped"]
            /\ UNCHANGED <<clock, ticks, requests, locks, args, loc, winlog, peak, admitlog>>
       ELSE /\ Call(t, MwKey(host), path, <<>>)
            /\ mw' = [mw EXCEPT ![t] = [@ EXCEPT !.pc = "checking",
                                                 !.host = host, !.path = path,
                                                 !.checks = @ + 1]]

\* lines 116-126: the check returns (is_limited, info), the headers are made
CheckReturn(t) ==
    /\ mw[t].pc = "checking"
    /\ Return(t)
    /\ mw' = [mw EXCEPT ![t] =
           [@ EXCEPT !.pc = IF ShortCircuit(loc[t].is_limited) THEN "limited" ELSE "admitted",
                     !.is_limited = loc[t].is_limited,
                     !.info = [limit |-> loc[t].limit,
                               remaining |-> loc[t].remaining,
                               reset |-> loc[t].reset]]]

\* lines 128-137: the 429 response
Reject(t) ==
    /\ mw[t].pc = "limited"
    /\ mw' = [mw EXCEPT ![t] =
           [@ EXCEPT !.pc = "sent",
                     !.built = clock,
                     !.resp = [status  |-> 429,
                               body    |-> [detail |-> "Too many requests",
                                            type |-> "rate_limit_exceeded",
                                            retry_after |-> RetryAfter(mw[t].info.reset, clock)],
                               headers |-> Headers(mw[t].info)]]]
    /\ UNCHANGED <<clock, ticks, requests, locks, pc, args, loc, winlog, peak, admitlog>>

\* line 110, or lines 140-146: call_next(request) and the response returned.
\* What is downstream of one request does not depend on another request:
\* the requests suspended in call_next are resumed in the order of their
\* numbers.
CallNext(t, outcome) ==
    /\ LoopFree
    /\ mw[t].pc \in {"bypass", "admitted"}
    /\ \A u \in Tasks : u < t => mw[u].pc \notin {"bypass", "admitted"}
    /\ outcome \in Outcomes(mw[t].path)
    /\ LET down == DownResponse(mw[t].path, outcome)
       IN  mw' = [mw EXCEPT ![t] =
               IF outcome = "raise"
               THEN [@ EXCEPT !.pc = "raised", !.auth = @ + 1, !.handler = @ + 1]
               ELSE [@ EXCEPT !.pc = "sent",
                              !.auth = IF outcome \in {"ok", "unauthorized"}
                                          /\ mw[t].path # <<"/", "health">>
                                       THEN @ + 1 ELSE @,
                              !.handler = IF outcome = "ok" THEN @ + 1 ELSE @,
                              !.down = down,
                              !.resp = IF mw[t].pc = "bypass" THEN down
                                       ELSE [down EXCEPT !.headers =
                                                AddHeaders(@, Headers(mw[t].info))]]]
    /\ UNCHANGED <<clock, ticks, requests, locks, pc, args, loc, winlog, peak, admitlog>>

MwOutcomes == {"ok", "unauthorized", "notfound", "raise"}

NextMwMono ==
    \/ \E d \in ClockSteps : Tick(d)
    \/ \E t \in Tasks, r \in MwRequests : Dispatch(t, r[1], r[2])
    \/ \E t \in Tasks : Read(t)
    \/ \E t \in Tasks : Decide(t) /\ UNCHANGED admitlog
    \/ \E t \in Tasks : CheckReturn(t)
    \/ \E t \in Tasks : Reject(t)
    \/ \E t \in Tasks, outcome \in MwOutcomes : CallNext(t, outcome)

NextMw ==
    \/ NextMwMono
    \/ \E d \in {1} : ClockBack(d)

\* the application behind the middleware
SpecMw == InitMw /\ [][NextMw]_vars

\* the same with a clock that never goes back
SpecMwMono == InitMw /\ [][NextMwMono]_vars

\* ---- the scheduling of the calls ----
\* the steps of the calls alone: the clock stands still
NextCalls ==
    \/ \E t \in Tasks, p \in CallPairs :
           Call(t, p[1], p[2], CallerLimit(p[2])) /\ UNCHANGED mw
    \/ \E t \in Tasks : Wake(t)
    \/ \E t \in Tasks : Read(t)
    \/ \E t \in Tasks : Decide(t) /\ UNCHANGED admitlog
    \/ \E t \in Tasks : Return(t) /\ UNCHANGED mw

\* the event loop runs every callback that is ready: a task that holds the
\* lock runs on to its return (lines 51-96 have no await), and a waiter whose
\* future release() has completed is resumed
FairCalls ==
    \A t \in Tasks :
        /\ WF_vars(Wake(t))
        /\ WF_vars(Read(t))
        /\ WF_vars(Decide(t) /\ UNCHANGED admitlog)
        /\ WF_vars(Return(t) /\ UNCHANGED mw)

SpecFair == Init /\ [][NextCalls]_vars /\ FairCalls

\* ---- one pair across the boundaries of its windows ----
WinPair == <<"1.2.3.4", <<"/", "resume", "/", "enhance">>>>

\* the limit its callers pass
WinLimit == ResolveLimit(WinPair[2], CallerLimit(WinPair[2]))

\* k admissions in a window started at time ws, all at that time
AdmittedAt(k, ws) == [i \in 1..k |-> <<ws, ws>>]

\* the limiter after up to WinLimit admissions of the pair in a window
\* started at a fraction of a second, which is now or a fraction of a second
\* less than a window ago
InitWin ==
    /\ clock \in {1, WindowTicks}
    /\ ticks = 0
    /\ \E k \in 0..WinLimit :
           /\ requests = IF k = 0 THEN [x \in {} |-> [e \in {} |-> <<0, 0>>]]
                          ELSE Store([x \in {} |-> [e \in {} |-> <<0, 0>>]],
                                     WinPair[1], WinPair[2], <<k, 1>>)
           /\ admitlog = [p \in Pairs |-> IF p = WinPair THEN AdmittedAt(k, 1) ELSE <<>>]
    /\ locks = [k \in DOMAIN requests |-> NewLock]
    /\ pc = [t \in Tasks |-> "idle"]
    /\ args = [t \in Tasks |-> NoArgs]
    /\ loc = [t \in Tasks |-> NoLocals]
    /\ winlog = [p \in Pairs |-> <<>>]
    /\ peak = [p \in Pairs |-> 0]
    /\ mw = [t \in Tasks |-> NoMw]

\* lines 64-96, with the time and the window of an admission written down
DecideLogged(t) ==
    /\ Decide(t)
    /\ admitlog' = [admitlog EXCEPT ![PairOf(t)] =
           IF loc'[t].is_limited THEN @
           ELSE Append(@, <<loc[t].now, loc[t].window_start>>)]

\* calls of the one pair, under a clock that never goes back
NextWin ==
    \/ \E d \in ClockSteps : Tick(d)
    \/ \E t \in Tasks :
           Call(t, WinPair[1], WinPair[2], CallerLimit(WinPair[2])) /\ UNCHANGED mw
    \/ \E t \in Tasks : Wake(t)
    \/ \E t \in Tasks : Read(t)
    \/ \E t \in Tasks : DecideLogged(t)
    \/ \E t \in Tasks : Return(t) /\ UNCHANGED mw

SpecWin == InitWin /\ [][NextWin]_vars

\* ---- calls with and without a limit of their own ----
\* the limit argument: None, one below and one above what the table gives
\* the endpoint
OverrideLimits == {<<>>, <<1>>, <<7>>}

\* the limiter after k admissions of the pair, none or as many as the table
\* allows
InitOverride ==
    /\ clock = 1
    /\ ticks = 0
    /\ \E k \in {0, TableLimit(WinPair[2])} :
           /\ requests = IF k = 0 THEN [x \in {} |-> [e \in {} |-> <<0, 0>>]]
                          ELSE Store([x \in {} |-> [e \in {} |-> <<0, 0>>]],
                                     WinPair[1], WinPair[2], <<k, 1>>)
           /\ admitlog = [p \in Pairs |-> IF p = WinPair THEN AdmittedAt(k, 1) ELSE <<>>]
    /\ locks = [k \in DOMAIN requests |-> NewLock]
    /\ pc = [t \in Tasks |-> "idle"]
    /\ args = [t \in Tasks |-> NoArgs]
    /\ loc = [t \in Tasks |-> NoLocals]
    /\ winlog = [p \in Pairs |-> <<>>]
    /\ peak = [p \in Pairs |-> 0]
    /\ mw = [t \in Tasks |-> NoMw]

NextOverride ==
    \/ \E t \in Tasks, limit \in OverrideLimits :
           Call(t, WinPair[1], WinPair[2], limit) /\ UNCHANGED mw
    \/ \E t \in Tasks : Wake(t)
    \/ \E t \in Tasks : Read(t)
    \/ \E t \in Tasks : DecideLogged(t)
    \/ \E t \in Tasks : Return(t) /\ UNCHANGED mw

SpecOverride == InitOverride /\ [][NextOverride]_vars

\* ---- helpers of the properties ----
\* the limit that governs a pair: its callers always pass CallerLimit
LimitOfPair(p) == ResolveLimit(p[2], CallerLimit(p[2]))

\* the stored counter of a pair, <<present, count, window_start>>
EntryOf(p) ==
    IF HasEntry(requests, p[1], p[2])
    THEN <<TRUE, requests[p[1]][p[2]][1], requests[p[1]][p[2]][2]>>
    ELSE <<FALSE, 0, 0>>

AdmittedIn(log) == Cardinality({i \in 1..Len(log) : ~log[i].is_limited})
RejectedIn(log) == Cardinality({i \in 1..Len(log) : log[i].is_limited})

\* a waiting task whose future has not been given a result
Blocked(t) == pc[t] = "waiting" /\ t \notin LockOf(locks, LockKey(KeyOf(t), EndpointOf(t))).woken

\* u stands between t and the lock: it holds it or has been handed it
Ahead(u, t) ==
    /\ u # t
    /\ \/ InCS(u)
       \/ pc[u] = "waiting" /\ ~Blocked(u)

\* C1: for every pair governed by a limit L >= 1 the stored count is within
\* 0..L and at most L requests are admitted between two window resets (or
\* since the counter was created).
C1_BoundedAdmissions ==
    \A p \in Pairs :
        LimitOfPair(p) >= 1 =>
            /\ EntryOf(p)[2] >= 0
            /\ EntryOf(p)[2] <= LimitOfPair(p)
            /\ AdmittedIn(winlog[p]) <= LimitOfPair(p)

\* C1 witness: a pair has used its whole quota and a further request was decided
C1_Witness ==
    \E p \in Pairs :
        /\ LimitOfPair(p) >= 1
        /\ EntryOf(p)[2] = LimitOfPair(p)
        /\ AdmittedIn(winlog[p]) = LimitOfPair(p)
        /\ Len(winlog[p]) > LimitOfPair(p)

\* C2: a call answers is_limited exactly when the count it read (after the
\* window reset) is at least the effective limit; when it admits, the stored
\* count is that count plus one, and it is stored before the call returns.
C2_AdmissionRule ==
    \A t \in Tasks :
        pc[t] = "ret" =>
            /\ loc[t].is_limited <=>
                   (loc[t].c0 >= ResolveLimit(EndpointOf(t), args[t].limit))
            /\ ~loc[t].is_limited =>
                   /\ EntryOf(PairOf(t))[1]
                   /\ EntryOf(PairOf(t))[2] = loc[t].c0 + 1

\* C2 witness: one call about to return admitted, another about to return rejected
C2_Witness ==
    \E t, u \in Tasks :
        /\ pc[t] = "ret" /\ ~loc[t].is_limited
        /\ EntryOf(PairOf(t))[2] = loc[t].c0 + 1
        /\ pc[u] = "ret" /\ loc[u].is_limited

\* C3: when more requests than the limit have been decided for a pair in one
\* window and none is in progress, exactly `limit` were admitted and the
\* others were rejected, whatever the interleaving.
C3_ExactlyLimitAdmitted ==
    \A p \in Pairs :
        (/\ LimitOfPair(p) >= 1
         /\ Len(winlog[p]) > LimitOfPair(p)
         /\ \A t \in Tasks : InFlight(t) => PairOf(t) # p)
        => /\ AdmittedIn(winlog[p]) = LimitOfPair(p)
           /\ RejectedIn(winlog[p]) = Len(winlog[p]) - LimitOfPair(p)

\* C3 witness: limit + 1 calls of one pair were in progress together and
\* have all returned
C3_Witness ==
    \E p \in Pairs :
        /\ Len(winlog[p]) > LimitOfPair(p)
        /\ \A t \in Tasks : InFlight(t) => PairOf(t) # p
        /\ peak[p] > LimitOfPair(p)
        /\ RejectedIn(winlog[p]) >= 1

\* C4: two tasks of the same pair are never both inside the section that
\* reads the counter and writes it back.
C4_CriticalSection ==
    \A t, u \in Tasks :
        (t # u /\ InCS(t) /\ InCS(u)) => PairOf(t) # PairOf(u)

\* C4 witness: a task has read the counter and not yet written it while
\* another task of the same pair waits
C4_Witness ==
    \E t, u \in Tasks :
        /\ pc[t] = "decide"
        /\ Blocked(u)
        /\ PairOf(u) = PairOf(t)

\* C5: a check waits only behind checks of its own (key, endpoint) pair: a
\* check for (k, e1) never makes a check for (k, e2) wait.
C5_PerPairExclusion ==
    \A t \in Tasks :
        Blocked(t) => \E u \in Tasks : Ahead(u, t) /\ PairOf(u) = PairOf(t)

\* C6: a check waits only behind checks of its own client key: a check for
\* k1 never makes a check for another key k2 wait.
C6_NoCrossKeyBlocking ==
    \A t \in Tasks :
        Blocked(t) => \E u \in Tasks : Ahead(u, t) /\ KeyOf(u) = KeyOf(t)

\* C6 witness: checks of two different keys are inside their critical
\* sections together, one of them on the endpoint of the other
C6_Witness ==
    \E t, u \in Tasks :
        /\ InCS(t) /\ InCS(u)
        /\ KeyOf(t) # KeyOf(u)
        /\ EndpointOf(t) = EndpointOf(u)

\* C7: the first `limit` requests of a window of a pair are all admitted and
\* the i-th reports remaining = limit - i.
C7_RemainingCountsDown ==
    \A p \in Pairs :
        LimitOfPair(p) >= 1 =>
            \A i \in 1..Len(winlog[p]) :
                i <= LimitOfPair(p) =>
                    /\ ~winlog[p][i].is_limited
                    /\ winlog[p][i].remaining = LimitOfPair(p) - i

\* C7 witness: a pair with limit 2 has had its two requests, remaining 1 then 0
C7_Witness ==
    \E p \in Pairs :
        /\ LimitOfPair(p) = 2
        /\ Len(winlog[p]) = 2
        /\ winlog[p][1].remaining = 1
        /\ winlog[p][2].remaining = 0

\* C8: after `limit` admissions in a window, the next request of the pair and
\* every later one in that window is rejected with remaining = 0.
C8_RejectedPastLimit ==
    \A p \in Pairs :
        LimitOfPair(p) >= 1 =>
            \A i \in 1..Len(winlog[p]) :
                i > LimitOfPair(p) =>
                    /\ winlog[p][i].is_limited
                    /\ winlog[p][i].remaining = 0

\* C8 witness: the (limit+1)-th and the (limit+2)-th request of a window
C8_Witness ==
    \E p \in Pairs :
        /\ Len(winlog[p]) >= LimitOfPair(p) + 2
        /\ winlog[p][LimitOfPair(p) + 2].is_limited

\* C9: a request made 60 seconds or more after the stored window_start is
\* admitted, leaves the counter at (1, time of the request) and reports
\* remaining = limit - 1.
C9_ResetAfterWindow ==
    \A t \in Tasks :
        (/\ pc[t] = "ret"
         /\ loc[t].now - loc[t].ws0 >= WINDOW_SIZE * TicksPerSec
         /\ ResolveLimit(EndpointOf(t), args[t].limit) >= 1)
        => /\ ~loc[t].is_limited
           /\ EntryOf(PairOf(t)) = <<TRUE, 1, loc[t].now>>
           /\ loc[t].remaining = ResolveLimit(EndpointOf(t), args[t].limit) - 1

\* C9 witness: a request exactly 60 seconds after the window_start of a pair
\* whose quota was exhausted
C9_Witness ==
    \E t \in Tasks :
        /\ pc[t] = "ret"
        /\ loc[t].now - loc[t].ws0 = WINDOW_SIZE * TicksPerSec
        /\ loc[t].count0 = ResolveLimit(EndpointOf(t), args[t].limit)

\* a rejection follows from the task's own pair only
OwnPairOnly ==
    \A t \in Tasks :
        (pc[t] = "ret" /\ loc[t].is_limited) =>
            EntryOf(PairOf(t))[2] >= ResolveLimit(EndpointOf(t), args[t].limit)

\* a stored counter changes only in a step of a call of its own pair
FrameStep ==
    \A p \in Pairs :
        EntryOf(p)' # EntryOf(p) =>
            \E t \in Tasks :
                /\ pc[t] \in {"read", "decide"}
                /\ pc'[t] # pc[t]
                /\ PairOf(t) = p

\* C10: counters of distinct pairs are independent: a call changes the
\* stored counter of its own pair only, and is rejected on the count of its
\* own pair only.
C10_IndependentCounters == [][FrameStep]_vars /\ []OwnPairOnly

\* C10 witness: a client is admitted on one endpoint while its quota on the
\* other endpoint is exhausted and has rejected a request
C10_Witness ==
    \E t \in Tasks, p \in Pairs :
        /\ pc[t] = "ret" /\ ~loc[t].is_limited
        /\ p[1] = KeyOf(t) /\ p[2] # EndpointOf(t)
        /\ EntryOf(p)[2] = LimitOfPair(p)
        /\ RejectedIn(winlog[p]) >= 1

\* the per-operation quotas of the specification: category, operation, quota
SubLimits ==
    { <<"resume", "parse", 10>>, <<"resume", "enhance", 5>>, <<"resume", "analyze", 5>>,
      <<"jobs", "search", 30>>, <<"jobs", "apply", 20>>,
      <<"auth", "login", 10>>, <<"auth", "register", 5>> }

\* the path reads <segment 0>/category/operation, possibly followed by
\* further segments: segment 0, before the first slash, is empty for a path
\* that starts with a slash
HasSubLimit(path, s) ==
    \E i \in 1..Len(path) :
        /\ \A j \in 1..(i - 1) : path[j] # "/"
        /\ Len(path) >= i + 3
        /\ path[i] = "/" /\ path[i + 1] = s[1] /\ path[i + 2] = "/" /\ path[i + 3] = s[2]
        /\ (Len(path) = i + 3 \/ path[i + 4] = "/")

\* the resolutions the specification lists
NamedCases ==
    { << <<"/", "resume", "/", "enhance">>, 5 >>, << <<"/", "resume", "/", "parse">>, 10 >>,
      << <<"/", "jobs", "/", "search">>, 30 >>,   << <<"/", "jobs", "/", "apply">>, 20 >>,
      << <<"/", "auth", "/", "login">>, 10 >>,    << <<"/", "auth", "/", "register">>, 5 >>,
      << <<"/", "unknown", "/", "thing">>, 60 >>, << <<"/", "resume", "/", "other">>, 60 >>,
      << <<"/", "resume">>, 60 >>,                << <<"/", "health">>, 60 >> }

\* C11: without an explicit limit the resolved limit is the configured
\* sub-limit when the path is /category/operation of the table, and the
\* global default 60 otherwise; the listed paths resolve as listed.
C11_LimitResolution ==
    \A t \in Tasks :
        pc[t] = "resolved" =>
            /\ \A s \in SubLimits :
                   HasSubLimit(args[t].endpoint, s) => loc[t].limit = s[3]
            /\ (\A s \in SubLimits : ~HasSubLimit(args[t].endpoint, s))
                   => loc[t].limit = 60
            /\ \A c \in NamedCases :
                   args[t].endpoint = c[1] => loc[t].limit = c[2]

\* C11 witness: /jobs/search has been resolved to 30
C11_Witness ==
    /\ pc[1] = "resolved"
    /\ args[1].endpoint = <<"/", "jobs", "/", "search">>
    /\ loc[1].limit = 30

\* C12: a category whose entry in the limit table is a flat integer gets that
\* integer as its limit, for every operation under it.
C12_FlatCategoryLimit ==
    \A t \in Tasks :
        (/\ pc[t] = "resolved"
         /\ Len(args[t].endpoint) >= 2
         /\ args[t].endpoint[1] = "/"
         /\ args[t].endpoint[2] \in DOMAIN default_limits
         /\ (Len(args[t].endpoint) = 2 \/ args[t].endpoint[3] = "/"))
        => (~default_limits[args[t].endpoint[2]].isdict
               => loc[t].limit = default_limits[args[t].endpoint[2]].flat)

\* C12 witness: an operation under the flat entry of the table has been resolved
C12_Witness ==
    /\ pc[1] = "resolved"
    /\ args[1].endpoint = <<"/", "default", "/", "enhance">>
    /\ loc[1].limit = default_limits.default.flat

\* ---- the middleware ----
HealthPath == <<"/", "health">>

RateLimitHeaders == {"X-RateLimit-Limit", "X-RateLimit-Remaining", "X-RateLimit-Reset"}

Started(t) == mw[t].pc # "new"

\* C13: when the check of a request returns is_limited = true, the downstream
\* handler is never invoked for it, the answer is a 429 response whose body
\* has type rate_limit_exceeded, dispatch never raises, and the request makes
\* no second check and waits in no queue.
C13_RejectShortCircuits ==
    \A t \in Tasks :
        mw[t].is_limited =>
            /\ mw[t].pc \in {"limited", "sent"}
            /\ mw[t].handler = 0
            /\ mw[t].auth = 0
            /\ mw[t].checks = 1
            /\ pc[t] = "done"
            /\ mw[t].pc = "sent" =>
                   /\ mw[t].resp.status = 429
                   /\ mw[t].resp.body.type = "rate_limit_exceeded"
                   /\ mw[t].down = NoResponse

\* a rejected request has been answered
C13_Witness ==
    \E t \in Tasks :
        /\ mw[t].is_limited
        /\ mw[t].pc = "sent"
        /\ mw[t].resp.status = 429
        /\ mw[t].handler = 0

\* a step changes the counters of the pair of the task that takes it only,
\* and an admission stores the count of the window plus one
CountStep ==
    \A p \in MwRequests :
        EntryOf(p)' # EntryOf(p) =>
            \E t \in Tasks :
                /\ mw[t].pc = "checking"
                /\ <<mw[t].host, mw[t].path>> = p
                /\ pc[t] \in {"read", "decide"}
                /\ pc'[t] # pc[t]
                /\ \A q \in MwRequests \ {p} : EntryOf(q)' = EntryOf(q)
                /\ pc[t] = "read" => EntryOf(p)'[2] = 0
                /\ pc[t] = "decide" =>
                       /\ ~loc'[t].is_limited
                       /\ EntryOf(p)'[2] = loc[t].c0 + 1

\* every step in which a task is admitted raises the count of its pair
AdmitStep ==
    \A t \in Tasks :
        (pc[t] = "decide" /\ pc'[t] = "ret" /\ ~loc'[t].is_limited) =>
            /\ EntryOf(<<mw[t].host, mw[t].path>>)'[1]
            /\ EntryOf(<<mw[t].host, mw[t].path>>)'[2] = loc[t].c0 + 1

OneCheck ==
    \A t \in Tasks :
        Started(t) =>
            /\ mw[t].checks = IF mw[t].path = HealthPath THEN 0 ELSE 1
            /\ mw[t].pc = "checking" =>
                   /\ pc[t] \in {"read", "decide", "ret"}
                   /\ args[t] = [key |-> mw[t].host, endpoint |-> mw[t].path, limit |-> <<>>]
            /\ mw[t].pc \in {"limited", "admitted", "sent", "raised"}
               /\ mw[t].path # HealthPath => pc[t] = "done"

\* C14: every request whose path is not the liveness path makes exactly one
\* check, with the client's address as key, its path as endpoint and no
\* explicit limit; a counter changes only in the check of a request of its
\* pair, and an admitted request raises the count of that one pair by one.
C14_OneCheckPerRequest == []OneCheck /\ [][CountStep /\ AdmitStep]_vars

\* two requests of different clients have been checked and admitted
C14_Witness ==
    \E t, u \in Tasks :
        /\ mw[t].host # mw[u].host
        /\ mw[t].pc = "sent" /\ mw[t].checks = 1 /\ ~mw[t].is_limited
        /\ mw[u].pc = "admitted" /\ mw[u].checks = 1
        /\ EntryOf(<<mw[u].host, mw[u].path>>)[2] = 1

Untouched ==
    \A t \in Tasks :
        (Started(t) /\ mw[t].path = HealthPath) =>
            /\ mw[t].pc \in {"bypass", "sent"}
            /\ mw[t].checks = 0
            /\ pc[t] = "skipped"
            /\ args[t] = NoArgs
            /\ \A k \in Keys : ~HasEntry(requests, k, HealthPath)
            /\ mw[t].pc = "sent" =>
                   /\ mw[t].resp = mw[t].down
                   /\ mw[t].resp.status = 200
                   /\ mw[t].resp.body.type = "healthy"
                   /\ DOMAIN mw[t].resp.headers \cap RateLimitHeaders = {}

OthersLimited ==
    \A t \in Tasks :
        (Started(t) /\ mw[t].path # HealthPath) =>
            /\ mw[t].checks = 1
            /\ mw[t].pc # "bypass"
            /\ mw[t].pc = "sent" =>
                   RateLimitHeaders \subseteq DOMAIN mw[t].resp.headers

\* the steps of a request of the liveness path leave the limiter alone
BypassStep ==
    \A t \in Tasks :
        (mw'[t] # mw[t] /\ mw'[t].path = HealthPath) =>
            UNCHANGED <<requests, locks>>

\* C15: a request of exactly /health goes to the downstream handler untouched:
\* no check, no counter or lock created or changed, no quota header, status
\* 200 whatever quota its client has used; every other path, /health/ and
\* /health/x included, is checked.
C15_HealthBypass == [](Untouched /\ OthersLimited) /\ [][BypassStep]_vars

\* /health is served to a client who has just been rejected for an exhausted
\* quota
C15_Witness ==
    \E t, u \in Tasks :
        /\ mw[t].path = HealthPath /\ mw[t].pc = "sent" /\ mw[t].resp.status = 200
        /\ mw[u].host = mw[t].host /\ mw[u].pc = "sent" /\ mw[u].resp.status = 429
        /\ u < t
        /\ EntryOf(<<mw[u].host, mw[u].path>>)[2] >= ResolveLimit(mw[u].path, <<>>)

Rejected(t) == mw[t].pc = "sent" /\ mw[t].resp.status = 429

\* C16: retry_after of every 429 body is reset minus the epoch second at
\* which the response is built, and is never negative, also when the clock
\* moves between the check and the construction of the response.
C16_RetryAfterFloored ==
    \A t \in Tasks :
        Rejected(t) =>
            /\ mw[t].resp.body.retry_after = mw[t].info.reset - (mw[t].built \div TicksPerSec)
            /\ mw[t].resp.body.retry_after >= 0

\* C17: with a clock that never goes back and a limit of at least 1, a client
\* rejected for a pair with retry_after = r >= 0 whose next request of that
\* pair is checked r seconds or more after the rejection was built is admitted.
C17_RetryAfterSuffices ==
    \A u, t \in Tasks :
        ( /\ u # t
          /\ Rejected(u)
          /\ mw[u].resp.body.retry_after >= 0
          /\ mw[t].pc = "checking"
          /\ pc[t] = "ret"
          /\ <<mw[t].host, mw[t].path>> = <<mw[u].host, mw[u].path>>
          /\ loc[t].limit >= 1
          /\ loc[t].now >= mw[u].built + mw[u].resp.body.retry_after * TicksPerSec )
        => ~loc[t].is_limited

\* C18: every info the check returns has remaining >= 0 and
\* remaining = max(0, limit - count) for the count stored after the decision;
\* an admitted call has remaining = limit - count, and window is 60.
C18_InfoRemaining ==
    \A t \in Tasks :
        pc[t] = "ret" =>
            LET stored == EntryOf(PairOf(t))[2]
                diff   == loc[t].limit - stored
            IN  /\ EntryOf(PairOf(t))[1]
                /\ loc[t].limit = LimitOfPair(PairOf(t))
                /\ loc[t].remaining >= 0
                /\ loc[t].remaining = IF diff > 0 THEN diff ELSE 0
                /\ ~loc[t].is_limited => loc[t].remaining = diff
                /\ loc[t].window = WINDOW_SIZE

\* a call returns remaining = 0 on a rejection while a call of another client
\* returns what is left of its quota
C18_Witness ==
    \E t, u \in Tasks :
        /\ pc[t] = "ret" /\ loc[t].is_limited /\ loc[t].remaining = 0
        /\ pc[u] = "ret" /\ ~loc[u].is_limited
        /\ loc[u].remaining = loc[u].limit - EntryOf(PairOf(u))[2]
        /\ loc[u].remaining > 0

\* C19: an admitted request gets the downstream response, status and body
\* unchanged, its headers kept, with the three X-RateLimit headers added; a
\* rejected request gets them on the 429; their values are the limit,
\* remaining and reset of the check of the request.
C19_QuotaHeaders ==
    \A t \in Tasks :
        (mw[t].pc = "sent" /\ mw[t].path # HealthPath) =>
            LET hs   == mw[t].resp.headers
                info == mw[t].info
            IN  /\ RateLimitHeaders \subseteq DOMAIN hs
                /\ hs["X-RateLimit-Limit"] = Str(info.limit)
                /\ hs["X-RateLimit-Remaining"] = Str(info.remaining)
                /\ hs["X-RateLimit-Reset"] = Str(info.reset)
                /\ info.limit = ResolveLimit(mw[t].path, <<>>)
                /\ info.remaining \in 0..(info.limit - 1)
                /\ mw[t].checks = 1
                /\ IF mw[t].is_limited
                   THEN /\ mw[t].resp.status = 429
                        /\ info.remaining = 0
                   ELSE /\ mw[t].down # NoResponse
                        /\ mw[t].resp.status = mw[t].down.status
                        /\ mw[t].resp.body = mw[t].down.body
                        /\ DOMAIN hs = DOMAIN mw[t].down.headers \cup RateLimitHeaders
                        /\ \A h \in DOMAIN mw[t].down.headers \ RateLimitHeaders :
                               hs[h] = mw[t].down.headers[h]

\* an admitted request and a rejected one have been answered
C19_Witness ==
    \E t, u \in Tasks :
        /\ mw[t].pc = "sent" /\ ~mw[t].is_limited /\ mw[t].resp.status = 200
        /\ mw[t].path # HealthPath
        /\ mw[t].resp.headers["X-RateLimit-Remaining"] = Str(mw[t].info.remaining)
        /\ "content-type" \in DOMAIN mw[t].resp.headers
        /\ Rejected(u)
        /\ mw[u].resp.headers["X-RateLimit-Limit"] = Str(mw[u].info.limit)

DecisionFirst ==
    \A t \in Tasks :
        /\ mw[t].is_limited => mw[t].auth = 0 /\ mw[t].handler = 0
        /\ (mw[t].path # HealthPath /\ (mw[t].auth + mw[t].handler > 0 \/ mw[t].pc = "raised")) =>
               /\ mw[t].checks = 1
               /\ ~mw[t].is_limited
               /\ pc[t] = "done"
        /\ mw[t].pc \in {"admitted", "raised"}
           \/ (mw[t].pc = "sent" /\ mw[t].path # HealthPath /\ ~mw[t].is_limited) =>
               /\ EntryOf(<<mw[t].host, mw[t].path>>)[1]
               /\ EntryOf(<<mw[t].host, mw[t].path>>)[2] >= 1

\* no step gives a slot back: within a window a count never goes down, and
\* what happens downstream leaves the counters alone
NoRefund ==
    /\ \A p \in MwRequests :
           (EntryOf(p)[1] /\ EntryOf(p)'[3] = EntryOf(p)[3]) => EntryOf(p)'[2] >= EntryOf(p)[2]
    /\ \A t \in Tasks :
           (mw[t].pc = "admitted" /\ mw'[t].pc # "admitted") => requests' = requests

\* C20: the decision of the limiter comes before the auth dependency and the
\* route handler: a rejected request reaches neither, and a request admitted
\* and then refused by auth or failing in the handler keeps its slot counted.
C20_LimitBeforeAuth == []DecisionFirst /\ [][NoRefund]_vars

\* an admitted request was refused by auth, another failed downstream, and
\* both are counted
C20_Witness ==
    \E t, u \in Tasks :
        /\ mw[t].pc = "sent" /\ mw[t].resp.status = 401 /\ mw[t].handler = 0
        /\ mw[u].pc = "raised"
        /\ <<mw[t].host, mw[t].path>> = <<mw[u].host, mw[u].path>>
        /\ EntryOf(<<mw[t].host, mw[t].path>>)[2] >= 2

\* ---- the tables of the limiter ----
\* no step removes a counter, a key of the store or a lock
GrowOnly ==
    /\ \A p \in Pairs : EntryOf(p)[1] => EntryOf(p)'[1]
    /\ DOMAIN requests \subseteq DOMAIN requests'
    /\ DOMAIN locks \subseteq DOMAIN locks'

\* C21: the pairs that have a counter and the keys that have a lock only
\* grow: a counter or a lock that exists exists in every later state.
C21_TablesOnlyGrow == [][GrowOnly]_vars

\* both clients have a lock and a counter, the window of one counter started
\* later than that of the other, and every call has returned
C21_Witness ==
    /\ DOMAIN locks = Keys
    /\ \E p, q \in Pairs :
           /\ p[1] # q[1]
           /\ EntryOf(p)[1] /\ EntryOf(q)[1]
           /\ EntryOf(p)[3] > EntryOf(q)[3] + 1
    /\ \A t \in Tasks : ~InFlight(t)

\* ---- fixed windows ----
\* the admissions of the pair, oldest first
WinLog == admitlog[WinPair]

\* the time from the i-th admission to the j-th
Span(i, j) == WinLog[j][1] - WinLog[i][1]

\* the admissions from the i-th to the j-th that fell in the window of the n-th
InWindowOf(i, j, n) == {m \in i..j : WinLog[m][2] = WinLog[n][2]}

C24_TwiceLimitBound ==
    /\ WinLimit >= 1
    /\ \A i, j \in 1..Len(WinLog) :
           (i <= j /\ Span(i, j) <= WindowTicks) => j - i + 1 <= 2 * WinLimit
    /\ \A i, j \in 1..Len(WinLog) :
           (i < j /\ WinLog[i][2] # WinLog[j][2]) =>
               WinLog[j][2] - WinLog[i][2] >= WindowTicks

\* 2 x L admissions in an interval of exactly 60 seconds
C24_Witness ==
    \E i, j \in 1..Len(WinLog) :
        /\ Span(i, j) = WindowTicks
        /\ j - i + 1 = 2 * WinLimit
        /\ WinLog[j][2] = WinLog[i][2] + WindowTicks

\* ---- the window of a pair ----
\* what lines 57-62 leave in the locals of a call: a window that is 60
\* seconds old or more restarts at the time the call read, any other is kept
WindowRule ==
    \A t \in Tasks :
        pc[t] \in {"decide", "ret"} =>
            IF loc[t].now - loc[t].ws0 >= WindowTicks
            THEN loc[t].window_start = loc[t].now /\ loc[t].c0 = 0
            ELSE loc[t].window_start = loc[t].ws0 /\ loc[t].c0 = loc[t].count0

\* the stored start of a window changes only in the step of a call of the
\* pair that read the clock 60 seconds or more after it, and then becomes
\* what that call read, with the count restarted; a call that read the clock
\* less than 60 seconds after it, or before it, leaves it as it is
WindowStep ==
    /\ \A p \in Pairs :
           (EntryOf(p)[1] /\ EntryOf(p)'[3] # EntryOf(p)[3]) =>
               \E t \in Tasks :
                   /\ pc[t] = "decide" /\ pc'[t] = "ret"
                   /\ PairOf(t) = p
                   /\ loc[t].now - EntryOf(p)[3] >= WindowTicks
                   /\ EntryOf(p)'[3] = loc[t].now
                   /\ EntryOf(p)'[2] = 0 + 1
    /\ \A t \in Tasks :
           (pc[t] = "decide" /\ pc'[t] = "ret"
               /\ loc[t].now - loc[t].ws0 < WindowTicks) =>
               /\ EntryOf(PairOf(t))'[3] = EntryOf(PairOf(t))[3]
               /\ EntryOf(PairOf(t))'[3] = loc[t].ws0

\* C23: the stored window_start of a pair changes only in a call where
\* now - window_start >= 60, and then it becomes that call's now with the
\* count restarted from 0; a call with now - window_start < 60, also one
\* that reads a clock set back before window_start, keeps window_start.
C23_ResetOnlyWhenExpired == []WindowRule /\ [][WindowStep]_vars

\* a call that read the clock before the start of the window of its pair
\* has decided on that window and left it where it was
C23_Witness ==
    \E t \in Tasks :
        /\ pc[t] = "ret"
        /\ loc[t].now < loc[t].ws0
        /\ loc[t].window_start = loc[t].ws0
        /\ EntryOf(PairOf(t)) = <<TRUE, loc[t].count, loc[t].ws0>>

\* a step of a call on a pair that has a counter and is rejected leaves the
\* counter as it is
RejectStep ==
    \A t \in Tasks :
        /\ (pc[t] = "read" /\ pc'[t] = "decide" /\ EntryOf(PairOf(t))[1]) =>
               EntryOf(PairOf(t))' = EntryOf(PairOf(t))
        /\ (pc[t] = "decide" /\ pc'[t] = "ret" /\ loc'[t].is_limited) =>
               EntryOf(PairOf(t))' = EntryOf(PairOf(t))

\* a rejected call returns with the counter it found
RejectedKeeps ==
    \A t \in Tasks :
        (pc[t] = "ret" /\ loc[t].is_limited) =>
            EntryOf(PairOf(t)) = <<TRUE, loc[t].count0, loc[t].ws0>>

\* C25: a rejected call on a pair that has a counter leaves the stored
\* (count, window_start) of the pair unchanged: a rejection consumes no
\* quota and neither moves nor extends the window.
C25_RejectionLeavesCounter == []RejectedKeeps /\ [][RejectStep]_vars

\* two calls were rejected one after the other on a full window, which is
\* still as the admissions left it
C25_Witness ==
    \E t, u \in Tasks :
        /\ t # u
        /\ pc[t] = "done"
        /\ Len(SelectSeq(winlog[WinPair], LAMBDA e : e.is_limited)) >= 2
        /\ pc[u] = "ret" /\ loc[u].is_limited
        /\ loc[u].now > loc[u].ws0
        /\ EntryOf(WinPair) = <<TRUE, WinLimit, loc[u].ws0>>
        /\ Len(WinLog) = WinLimit

\* C26: for a limit of 1 or more, the reset a call returns is the integer
\* part of the window_start stored for the pair after the call plus 60, also
\* when the call resets the window.
C26_ResetIsStoredWindowEnd ==
    \A t \in Tasks :
        (pc[t] = "ret" /\ loc[t].limit >= 1) =>
            /\ EntryOf(PairOf(t))[1]
            /\ loc[t].reset = (EntryOf(PairOf(t))[3] + WindowTicks) \div TicksPerSec

\* a call that reset the window returns the end of the window it stored
C26_Witness ==
    \E t \in Tasks :
        /\ pc[t] = "ret"
        /\ loc[t].limit >= 1
        /\ loc[t].window_start # loc[t].ws0
        /\ EntryOf(PairOf(t))[3] = loc[t].now
        /\ loc[t].reset = (loc[t].now + WindowTicks) \div TicksPerSec
        /\ loc[t].reset > (loc[t].ws0 + WindowTicks) \div TicksPerSec

\* ---- the routes the application registers ----
\* C27: for every route registered under the API prefix /api/v1 the category
\* the limiter sees is `api` and the resolved limit is the global default
\* 60: no per-operation quota applies to a deployed route, nor to an endpoint
\* written without a leading slash such as resume/enhance.
C27_DeployedRoutesGetDefault ==
    \A t \in Tasks :
        pc[t] = "resolved" =>
            /\ args[t].endpoint \in DeployedPaths =>
                   /\ Split(args[t].endpoint)[2] = <<"api">>
                   /\ loc[t].limit = default_limits.default.flat
                   /\ loc[t].limit = 60
                   /\ \A s \in SubLimits : loc[t].limit # s[3]
            /\ args[t].endpoint = <<"resume", "/", "enhance">> =>
                   loc[t].limit = 60

\* the route of the search for jobs has been resolved to the default, not to
\* the quota of jobs search
C27_Witness ==
    /\ pc[1] = "resolved"
    /\ args[1].endpoint = <<"/", "api", "/", "v1", "/", "jobs", "/", "search">>
    /\ args[1].endpoint \in DeployedPaths
    /\ loc[1].limit = 60

\* ---- termination ----
\* a check that is in progress can take a step: the holder of a lock runs,
\* and a lock that is free with tasks waiting has handed itself to one
Progress ==
    (\E t \in Tasks : InFlight(t)) =>
        \E t \in Tasks : InCS(t) \/ (pc[t] = "waiting" /\ ~Blocked(t))

\* a lock is held, or promised to a waiter, only while a check is in progress
LocksReleased ==
    \A k \in DOMAIN locks :
        (\A t \in Tasks : ~(InFlight(t) /\ LockKey(KeyOf(t), EndpointOf(t)) = k)) =>
            locks[k] = NewLock

\* C28: every call of is_rate_limited terminates and releases the lock it
\* took: under fair scheduling no task waits for ever for the lock of a key,
\* concurrent checks never deadlock, and no lock is held when no check is
\* in progress.
C28_ChecksTerminate ==
    /\ \A t \in Tasks : InFlight(t) ~> pc[t] = "done"
    /\ \A t \in Tasks : (pc[t] = "waiting") ~> InCS(t)
    /\ []Progress
    /\ []LocksReleased

\* every task has returned, some of them after waiting for the lock of a
\* key behind another, and every lock is free
C28_Witness ==
    /\ \A t \in Tasks : pc[t] = "done"
    /\ \E p \in Pairs : peak[p] >= 2
    /\ DOMAIN locks # {}
    /\ \A k \in DOMAIN locks : locks[k] = NewLock

\* ---- explicit limits ----
\* C29: an explicit limit passed to is_rate_limited replaces the resolution
\* by endpoint: the decision is count >= that limit and info.limit is that
\* limit, whatever the table gives the endpoint; calls with and without an
\* explicit limit on one pair count on one counter.
C29_ExplicitLimitOverrides ==
    \A t \in Tasks :
        pc[t] = "ret" =>
            /\ args[t].limit # <<>> =>
                   /\ loc[t].limit = args[t].limit[1]
                   /\ loc[t].is_limited = (loc[t].c0 >= args[t].limit[1])
            /\ args[t].limit = <<>> =>
                   /\ loc[t].limit = TableLimit(EndpointOf(t))
                   /\ loc[t].is_limited = (loc[t].c0 >= TableLimit(EndpointOf(t)))
            /\ loc[t].c0 = loc[t].count0
            /\ EntryOf(PairOf(t))[2] = loc[t].count0 + (IF loc[t].is_limited THEN 0 ELSE 1)
            /\ EntryOf(PairOf(t))[2] = Len(admitlog[PairOf(t)])

\* a call with an explicit limit of 7 is admitted as the seventh of a window
\* in which a call without one, held to the 5 of the table, was rejected
C29_Witness ==
    \E t \in Tasks :
        /\ pc[t] = "ret"
        /\ args[t].limit = <<7>>
        /\ TableLimit(EndpointOf(t)) = 5
        /\ ~loc[t].is_limited
        /\ loc[t].limit = 7
        /\ EntryOf(PairOf(t)) = <<TRUE, 7, 1>>
        /\ \E i \in 1..Len(winlog[PairOf(t)]) : winlog[PairOf(t)][i].is_limited

\* ---- the creation of the locks ----
\* the tasks whose call is for key k
CallsOf(k) == {t \in Tasks : InFlight(t) /\ LockKey(KeyOf(t), EndpointOf(t)) = k}

\* the tasks of a key meet in the one lock of the key: one of them at most
\* is past line 50, the lock is then locked, and the others are its waiters
OneLockPerKey ==
    \A k \in Keys :
        /\ Cardinality({t \in CallsOf(k) : InCS(t)}) <= 1
        /\ CallsOf(k) # {} => k \in DOMAIN locks
        /\ k \in DOMAIN locks =>
               /\ locks[k].locked = (\E t \in CallsOf(k) : InCS(t))
               /\ {locks[k].waiters[i] : i \in 1..Len(locks[k].waiters)}
                      = {t \in CallsOf(k) : pc[t] = "waiting"}
               /\ locks[k].woken \subseteq {t \in CallsOf(k) : pc[t] = "waiting"}

\* a lock is made in the first call for its key and in no other step: every
\* later call finds it, with its holder and its waiters, takes it or queues
\* on it, and no step removes it
CreateOnce ==
    /\ DOMAIN locks \subseteq DOMAIN locks'
    /\ \A k \in DOMAIN locks' \ DOMAIN locks :
           \E t \in Tasks :
               /\ pc[t] = "idle" /\ pc'[t] = "read"
               /\ args'[t].key = k
               /\ locks'[k] = [NewLock EXCEPT !.locked = TRUE]
    /\ \A t \in Tasks :
           (pc[t] = "idle" /\ pc'[t] # "idle" /\ args'[t].key \in DOMAIN locks) =>
               \/ locks'[args'[t].key] = [locks[args'[t].key] EXCEPT !.locked = TRUE]
               \/ locks'[args'[t].key] = [locks[args'[t].key] EXCEPT !.waiters = Append(@, t)]

\* C30: locks are created lazily without a race: at most one lock is ever
\* created for a client key, also when the first requests of a new key
\* arrive together, and all the tasks that check a key contend on that lock.
C30_OneLockPerKey == []OneLockPerKey /\ [][CreateOnce]_vars

\* the first two requests of a key arrived together: the first made the lock
\* and holds it before the key has a counter, the second waits on that lock
C30_Witness ==
    \E t, u \in Tasks :
        /\ t # u
        /\ KeyOf(t) = KeyOf(u)
        /\ pc[t] = "read"
        /\ pc[u] = "waiting"
        /\ KeyOf(t) \notin DOMAIN requests
        /\ locks[KeyOf(t)] = [locked |-> TRUE, waiters |-> <<u>>, woken |-> {}]

====
